---- MODULE Spec2Model ----
(***************************************************************************)
(* Two-pass RISC-V assembler (src/main.cpp, class risc_v_assembler).       *)
(*                                                                         *)
(* Text is modelled character by character: a string is a sequence of      *)
(* one-character strings, a source file is a sequence of lines.  A machine *)
(* word (uint32_t) or a uint64_t is the set of its bit positions that are  *)
(* 1, so that |, &, << and >> are set operations and the 32-bit truncation *)
(* of an assignment to a uint32_t is an intersection with 0..31.           *)
(***************************************************************************)
EXTENDS Integers, Sequences, FiniteSets, TLC

VARIABLES
    arg,        \* the input under study: a file, a line, a token
    ret,        \* the value returned by the function under study
    file,       \* the lines of the input file (each ended by a newline)
    fin,        \* the input fstream: next line to read, failbit, open
    input,      \* process(): the line read last by getline
    ss_input,   \* process(): the stringstream of pass 1
    temp,       \* process(): the token read last in pass 1
    i,          \* process(): the loop counter of the running pass
    labels,     \* the symbol table, label name -> instruction index
    fout,       \* the lines written to the output FILE
    output_file, \* the lines stored in the file that output_file names
    is_open,    \* the streams process() holds open, among fin and fout
    calls,      \* the calls of processLine made by pass 2, in order
    err,        \* the diagnostic of the abort, "none" while running
    pc          \* position in process(), or in the function under study

vars ==
    <<arg, ret, file, fin, input, ss_input, temp, i, labels, fout, output_file,
      is_open, calls, err, pc>>

-----------------------------------------------------------------------------
(* Bounds of the model.                                                    *)

MaxLines == 3
MaxTokLen == 3

-----------------------------------------------------------------------------
(* Characters and integers.                                                *)

Digits == <<"0","1","2","3","4","5","6","7","8","9">>
HexLower == <<"0","1","2","3","4","5","6","7","8","9","a","b","c","d","e","f">>
HexUpper == <<"0","1","2","3","4","5","6","7","8","9","A","B","C","D","E","F">>

Last(s) == s[Len(s)]

\* (c <= '9') && (c >= '0')
IsDigit(c) == \E k \in 1..10 : Digits[k] = c

\* c - '0' for a digit c
DigitVal(c) == (CHOOSE k \in 1..10 : Digits[k] = c) - 1

IsHexDigit(c) == \E k \in 1..16 : HexLower[k] = c \/ HexUpper[k] = c

HexVal(c) == (CHOOSE k \in 1..16 : HexLower[k] = c \/ HexUpper[k] = c) - 1

\* isspace() in the classic locale, for the characters a line can hold
IsSpace(c) == c = " " \/ c = "\t"

IntMax == 2147483647

-----------------------------------------------------------------------------
(* Machine integers as sets of bit positions.                              *)

\* the bits of an int n >= 0
Bits(n) == {b \in 0..30 : (n \div (2^b)) % 2 = 1}

\* the bits of the uint64_t that the (possibly negative) difference d wraps to
Bits64(d) == {b \in 0..63 : IF b < 31 THEN (d \div (2^b)) % 2 = 1 ELSE d < 0}

Shl(s, k, w) == {b + k : b \in s} \cap (0..(w - 1))
Shr(s, k) == {b - k : b \in {x \in s : x >= k}}
Trunc32(s) == s \cap (0..31)

\* the value of nibble k (0 = least significant) of a 32-bit word
RECURSIVE SumPow(_, _)
SumPow(s, lo) ==
    IF s = {} THEN 0
    ELSE LET b == CHOOSE x \in s : TRUE IN 2^(b - lo) + SumPow(s \ {b}, lo)

Nibble(w, k) == SumPow(w \cap ((4 * k)..(4 * k + 3)), 4 * k)

\* fprintf(fout, "%.8X\n", instruction): eight uppercase hex digits
Hex8(w) == [k \in 1..8 |-> HexUpper[Nibble(w, 8 - k) + 1]]

-----------------------------------------------------------------------------
(* std::stringstream: buffer, get position, eofbit and failbit.            *)

NewStream(s) == [buf |-> s, g |-> 1, eof |-> FALSE, fail |-> FALSE]

\* ss.str(s) replaces the buffer and rewinds; it leaves the state bits alone
SetStr(ss, s) == [ss EXCEPT !.buf = s, !.g = 1]

RECURSIVE SkipWs(_, _)
SkipWs(buf, g) ==
    IF g <= Len(buf) /\ IsSpace(buf[g]) THEN SkipWs(buf, g + 1) ELSE g

RECURSIVE TokenEnd(_, _)
TokenEnd(buf, g) ==
    IF g <= Len(buf) /\ ~IsSpace(buf[g]) THEN TokenEnd(buf, g + 1) ELSE g

\* the token that starts at g1 and ends before g2
TokenAt(ss, g1, g2) ==
    [ss |-> [ss EXCEPT !.g = g2, !.eof = (g2 > Len(ss.buf))],
     temp |-> SubSeq(ss.buf, g1, g2 - 1)]

\* the extraction once the sentry has skipped the whitespace up to g1
ExtractAt(r, g1) ==
    IF g1 > Len(r.ss.buf)
    THEN [ss |-> [r.ss EXCEPT !.g = g1, !.eof = TRUE, !.fail = TRUE], temp |-> r.temp]
    ELSE TokenAt(r.ss, g1, TokenEnd(r.ss.buf, g1))

\* ss >> temp, on the pair r of the stream and the string read into.  The
\* sentry fails (failbit) on a stream that is not good(), and sets eofbit
\* and failbit when only whitespace is left; in both cases temp keeps its
\* old value.  Reading a token up to the end of the buffer sets eofbit alone.
Extract(r) ==
    IF r.ss.eof \/ r.ss.fail
    THEN [ss |-> [r.ss EXCEPT !.fail = TRUE], temp |-> r.temp]
    ELSE ExtractAt(r, SkipWs(r.ss.buf, r.ss.g))

\* temp.substr(0, temp.size() - 1)
StripLast(t) == SubSeq(t, 1, Len(t) - 1)

-----------------------------------------------------------------------------
(* getRegister                                                             *)

\* the digit-accumulation loop: the digit at 0-based index k of a token of
\* size n adds digit * (n - k - 1) * 10, plus digit itself when it is last
RECURSIVE numeric_part(_, _)
numeric_part(tok, k) ==
    IF k > Len(tok) THEN 0
    ELSE (IF IsDigit(tok[k])
          THEN DigitVal(tok[k]) * (Len(tok) - k) * 10
               + (IF k = Len(tok) THEN DigitVal(tok[k]) ELSE 0)
          ELSE 0)
         + numeric_part(tok, k + 1)

non_numeric_part(tok) == SelectSeq(tok, LAMBDA c : ~IsDigit(c))

RegOk(n, offset) == [abort |-> FALSE, val |-> Shl(Bits(n), offset, 32)]
RegAbort == [abort |-> TRUE, val |-> {}]

\* the chain of comparisons on the two parts p and n of a token of size len
RegisterOf(p, n, len, offset) ==
    IF p = <<"x">> /\ n < 32 THEN RegOk(n, offset)
    ELSE IF p = <<"t">> /\ n < 7
         THEN (IF n < 3 THEN RegOk(5 + n, offset) ELSE RegOk(25 + n, offset))
    ELSE IF p = <<"s">> /\ n < 12
         THEN (IF n < 2 THEN RegOk(8 + n, offset) ELSE RegOk(16 + n, offset))
    ELSE IF p = <<"a">> /\ n < 8 THEN RegOk(10 + n, offset)
    ELSE IF p = <<"r","a">> /\ len = 2 THEN RegOk(1, offset)
    ELSE IF p = <<"s","p">> /\ len = 2 THEN RegOk(2, offset)
    ELSE IF p = <<"g","p">> /\ len = 2 THEN RegOk(3, offset)
    ELSE IF p = <<"t","p">> /\ len = 2 THEN RegOk(4, offset)
    ELSE IF p = <<"f","p">> /\ len = 2 THEN RegOk(8, offset)
    ELSE IF p = <<"z","e","r","o">> /\ len = 4 THEN RegOk(0, offset)
    ELSE RegAbort

getRegister(tok, offset) ==
    IF Len(tok) > 4 THEN RegAbort
    ELSE RegisterOf(non_numeric_part(tok), numeric_part(tok, 1), Len(tok), offset)

-----------------------------------------------------------------------------
(* getOpcode: the chain of string comparisons, in source order.            *)

OpcodeTable ==
    << [name |-> <<"l","b">>, type |-> "I", base |-> {0,1}],
         [name |-> <<"l","h">>, type |-> "I", base |-> {0,1,12}],
         [name |-> <<"l","w">>, type |-> "I", base |-> {0,1,13}],
         [name |-> <<"l","d">>, type |-> "I", base |-> {0,1,12,13}],
         [name |-> <<"l","b","u">>, type |-> "I", base |-> {0,1,14}],
         [name |-> <<"l","h","u">>, type |-> "I", base |-> {0,1,12,14}],
         [name |-> <<"l","w","u">>, type |-> "I", base |-> {0,1,13,14}],
         [name |-> <<"a","d","d","i">>, type |-> "I", base |-> {0,1,4}],
         [name |-> <<"s","l","l","i">>, type |-> "I", base |-> {0,1,4,12}],
         [name |-> <<"s","l","t","i">>, type |-> "I", base |-> {0,1,4,13}],
         [name |-> <<"s","l","t","i","u">>, type |-> "I", base |-> {0,1,4,12,13}],
         [name |-> <<"x","o","r","i">>, type |-> "I", base |-> {0,1,4,14}],
         [name |-> <<"s","r","l","i">>, type |-> "I", base |-> {0,1,4,12,14}],
         [name |-> <<"s","r","a","i">>, type |-> "I", base |-> {0,1,4,12,14,30}],
         [name |-> <<"o","r","i">>, type |-> "I", base |-> {0,1,4,13,14}],
         [name |-> <<"a","n","d","i">>, type |-> "I", base |-> {0,1,4,12,13,14}],
         [name |-> <<"a","u","i","p","c">>, type |-> "U", base |-> {0,1,2,4}],
         [name |-> <<"a","d","d","i","w">>, type |-> "I", base |-> {0,1,3,4}],
         [name |-> <<"s","l","l","i","w">>, type |-> "I", base |-> {0,1,3,4,12}],
         [name |-> <<"s","r","l","i","w">>, type |-> "I", base |-> {0,1,3,4,12,14}],
         [name |-> <<"s","r","a","i","w">>, type |-> "I", base |-> {0,1,3,4,12,14,30}],
         [name |-> <<"s","b">>, type |-> "S", base |-> {0,1,5}],
         [name |-> <<"s","h">>, type |-> "S", base |-> {0,1,5,12}],
         [name |-> <<"s","w">>, type |-> "S", base |-> {0,1,5,13}],
         [name |-> <<"s","d">>, type |-> "S", base |-> {0,1,5,12,13}],
         [name |-> <<"a","d","d">>, type |-> "R", base |-> {0,1,4,5}],
         [name |-> <<"s","u","b">>, type |-> "R", base |-> {0,1,4,5,30}],
         [name |-> <<"s","l","l">>, type |-> "R", base |-> {0,1,4,5,12}],
         [name |-> <<"s","l","t">>, type |-> "R", base |-> {0,1,4,5,13}],
         [name |-> <<"s","l","t","u">>, type |-> "R", base |-> {0,1,4,5,12,13}],
         [name |-> <<"x","o","r">>, type |-> "R", base |-> {0,1,4,5,14}],
         [name |-> <<"s","r","l">>, type |-> "R", base |-> {0,1,4,5,12,14}],
         [name |-> <<"s","r","a">>, type |-> "R", base |-> {0,1,4,5,12,14,30}],
         [name |-> <<"o","r">>, type |-> "R", base |-> {0,1,4,5,13,14}],
         [name |-> <<"a","n","d">>, type |-> "R", base |-> {0,1,4,5,12,13,14}],
         [name |-> <<"m","u","l">>, type |-> "R", base |-> {0,1,4,5,25}],
         [name |-> <<"m","u","l","h">>, type |-> "R", base |-> {0,1,4,5,13,25}],
         [name |-> <<"m","u","l","h","s","u">>, type |-> "R", base |-> {0,1,4,5,13,25}],
         [name |-> <<"m","u","l","h","u">>, type |-> "R", base |-> {0,1,4,5,12,13,25}],
         [name |-> <<"d","i","v">>, type |-> "R", base |-> {0,1,4,5,14,25}],
         [name |-> <<"d","i","v","u">>, type |-> "R", base |-> {0,1,4,5,12,14,25}],
         [name |-> <<"r","e","m">>, type |-> "R", base |-> {0,1,4,5,13,14,25}],
         [name |-> <<"r","e","m","u">>, type |-> "R", base |-> {0,1,4,5,12,13,14,25}],
         [name |-> <<"l","u","i">>, type |-> "U", base |-> {0,1,2,4,5}],
         [name |-> <<"a","d","d","w">>, type |-> "R", base |-> {0,1,3,4,5}],
         [name |-> <<"s","u","b","w">>, type |-> "R", base |-> {0,1,3,4,5,30}],
         [name |-> <<"s","l","l","w">>, type |-> "R", base |-> {0,1,3,4,5,12}],
         [name |-> <<"s","r","l","w">>, type |-> "R", base |-> {0,1,3,4,5,12,14}],
         [name |-> <<"s","r","a","w">>, type |-> "R", base |-> {0,1,3,4,5,12,14,30}],
         [name |-> <<"m","u","l","w">>, type |-> "R", base |-> {0,1,3,4,5,25}],
         [name |-> <<"d","i","v","w">>, type |-> "R", base |-> {0,1,3,4,5,14,25}],
         [name |-> <<"d","i","v","u","w">>, type |-> "R", base |-> {0,1,3,4,5,12,14,25}],
         [name |-> <<"r","e","m","w">>, type |-> "R", base |-> {0,1,3,4,5,13,14,25}],
         [name |-> <<"r","e","m","u","w">>, type |-> "R", base |-> {0,1,3,4,5,12,13,14,25}],
         [name |-> <<"b","e","q">>, type |-> "B", base |-> {0,1,5,6}],
         [name |-> <<"b","n","e">>, type |-> "B", base |-> {0,1,5,6,12}],
         [name |-> <<"b","l","t">>, type |-> "B", base |-> {0,1,5,6,14}],
         [name |-> <<"b","g","e">>, type |-> "B", base |-> {0,1,5,6,12,14}],
         [name |-> <<"b","l","t","u">>, type |-> "B", base |-> {0,1,5,6,13,14}],
         [name |-> <<"b","g","e","u">>, type |-> "B", base |-> {0,1,5,6,12,13,14}],
         [name |-> <<"j","a","l","r">>, type |-> "I", base |-> {0,1,2,5,6}],
         [name |-> <<"j","a","l">>, type |-> "J", base |-> {0,1,2,3,5,6}] >>

OpAbort == [abort |-> TRUE, type |-> "0", base |-> {}]

\* the first entry of the table with the name tok
OpcodeIndex(tok) ==
    CHOOSE j \in 1..Len(OpcodeTable) :
        /\ OpcodeTable[j].name = tok
        /\ \A h \in 1..(j - 1) : OpcodeTable[h].name # tok

OpFound(e) == [abort |-> FALSE, type |-> e.type, base |-> e.base]

getOpcode(tok) ==
    IF \E k \in 1..Len(OpcodeTable) : OpcodeTable[k].name = tok
    THEN OpFound(OpcodeTable[OpcodeIndex(tok)])
    ELSE OpAbort

-----------------------------------------------------------------------------
(* makeLabel and findLabelPos                                              *)

\* labels[name] = pos
makeLabel(lbls, name, pos) ==
    [n \in (DOMAIN lbls) \cup {name} |-> IF n = name THEN pos ELSE lbls[n]]

\* labels.find(name) == labels.end() aborts; otherwise labels[name]
findLabelPos(lbls, name) ==
    IF name \in DOMAIN lbls
    THEN [abort |-> FALSE, val |-> lbls[name]]
    ELSE [abort |-> TRUE, val |-> 0]

-----------------------------------------------------------------------------
(* std::stoi(temp, nullptr, base)                                          *)

IsBaseDigit(c, base) == IF base = 16 THEN IsHexDigit(c) ELSE IsDigit(c)

\* the digits from position k on, accumulated onto v; -1 when the value
\* leaves the range of int
RECURSIVE StoiDigits(_, _, _, _)
StoiDigits(tok, k, base, v) ==
    IF k > Len(tok) \/ ~IsBaseDigit(tok[k], base) THEN v
    ELSE LET d == HexVal(tok[k]) IN
         IF v > (IntMax - d) \div base THEN -1
         ELSE StoiDigits(tok, k + 1, base, v * base + d)

\* position of the first digit: after an optional sign and, for base 16,
\* after a 0x prefix that is followed by a hex digit
StoiStart(tok, base, s) ==
    IF /\ base = 16
       /\ Len(tok) >= s + 2
       /\ tok[s] = "0"
       /\ tok[s + 1] \in {"x", "X"}
       /\ IsHexDigit(tok[s + 2])
    THEN s + 2 ELSE s

StoiValue(tok, v) ==
    IF v < 0 THEN [abort |-> TRUE, val |-> 0]
    ELSE [abort |-> FALSE, val |-> IF tok[1] = "-" THEN 0 - v ELSE v]

StoiFrom(tok, base, p) ==
    IF p > Len(tok) \/ ~IsBaseDigit(tok[p], base)
    THEN [abort |-> TRUE, val |-> 0]
    ELSE StoiValue(tok, StoiDigits(tok, p, base, 0))

\* an optional sign, for base 16 an optional 0x prefix, then the longest run
\* of digits; the rest of the token is ignored.  No digit at all throws
\* std::invalid_argument, a value outside int throws std::out_of_range; an
\* uncaught exception terminates the process.
stoi(tok, base) ==
    StoiFrom(tok, base,
             StoiStart(tok, base, IF Len(tok) >= 1 /\ tok[1] \in {"-", "+"} THEN 2 ELSE 1))

\* the bits of an int (two's complement)
BitsInt(n) == {b \in 0..31 : IF b < 31 THEN (n \div (2^b)) % 2 = 1 ELSE n < 0}

-----------------------------------------------------------------------------
(* The immediate operand.                                                  *)

\* x >> k on a value of width w: int (w = 32) keeps the sign, uint64_t
\* (w = 64) shifts zeros in
ShrW(x, k, w) ==
    Shr(x, k) \cup (IF w = 32 /\ 31 \in x THEN (32 - k)..31 ELSE {})

\* imm << 20
ImmI(x, w) == Shl(x, 20, w)

\* imm << 12
ImmU(x, w) == Shl(x, 12, w)

\* ((imm & 0b11111) << 7) | ((imm & ~0b11111) << 20)
ImmS(x, w) == Shl(x \cap (0..4), 7, w) \cup Shl(x \cap (5..(w - 1)), 20, w)

\* imm[20] -> 31, imm[10:1] -> 21, imm[11] -> 20, imm[19:12] -> 12
ImmJ(x, w) ==
    Shl(ShrW(x, 20, w) \cap {0}, 31, w)
    \cup Shl(ShrW(x, 1, w) \cap (0..9), 21, w)
    \cup Shl(ShrW(x, 11, w) \cap {0}, 20, w)
    \cup Shl(ShrW(x, 12, w) \cap (0..7), 12, w)

\* imm[11] -> 7, imm[4:1] -> 8, imm[10:5] -> 25, imm[12] -> 31
ImmB(x, w) ==
    Shl(ShrW(x, 11, w) \cap {0}, 7, w)
    \cup Shl(ShrW(x, 1, w) \cap (0..3), 8, w)
    \cup Shl(ShrW(x, 5, w) \cap (0..5), 25, w)
    \cup Shl(ShrW(x, 12, w) \cap {0}, 31, w)

ImmField(type, x, w) ==
    Trunc32(CASE type = "I" -> ImmI(x, w)
              [] type = "U" -> ImmU(x, w)
              [] type = "S" -> ImmS(x, w)
              [] type = "J" -> ImmJ(x, w)
              [] type = "B" -> ImmB(x, w))

\* the three-way branch on the immediate token t of a line inp.  The I, U
\* and S arms test the first character of the token for a digit, the J and
\* B arms test the first character of the line.
ImmKind(type, inp, t) ==
    IF Len(t) >= 2 /\ t[1] = "0" /\ t[2] = "x" THEN "hex"
    ELSE IF type \in {"J", "B"}
         THEN (IF IsDigit(inp[1]) THEN "dec" ELSE "label")
         ELSE (IF IsDigit(t[1]) THEN "dec" ELSE "label")

ImmAbort(k, a) == [abort |-> a, field |-> {}, kind |-> k, disp |-> 0]

\* findLabelPos(temp) - pos, split into the fields of the format
ImmLabel(type, f, pos) ==
    IF f.abort THEN ImmAbort("label", "undefined label")
    ELSE [abort |-> "none", field |-> ImmField(type, Bits64(f.val - pos), 64),
          kind |-> "label", disp |-> f.val - pos]

\* stoi(temp, ...), split into the fields of the format
ImmLiteral(type, k, v) ==
    IF v.abort THEN ImmAbort(k, "stoi")
    ELSE [abort |-> "none", field |-> ImmField(type, BitsInt(v.val), 32),
          kind |-> k, disp |-> 0]

ImmOfKind(k, type, t, pos, lbls) ==
    IF k = "label" THEN ImmLabel(type, findLabelPos(lbls, t), pos)
    ELSE ImmLiteral(type, k, stoi(t, IF k = "hex" THEN 16 ELSE 10))

\* the bits the immediate token t contributes to the instruction
Immediate(type, inp, t, pos, lbls) ==
    ImmOfKind(ImmKind(type, inp, t), type, t, pos, lbls)

-----------------------------------------------------------------------------
(* processLine                                                             *)

\* ss_input && (temp.at(0) != '#')
ArgOk(r) == ~r.ss.fail /\ r.temp[1] # "#"

PLResult(a, w, ty, t, k, d) ==
    [abort |-> a, word |-> w, type |-> ty, imm |-> t, kind |-> k, disp |-> d]

PLAbort(a) == PLResult(a, {}, "0", <<>>, "none", 0)

\* return 0
PLZero == PLResult("none", {}, "0", <<>>, "none", 0)

\* what an arm hands to the code after the switch: the abort if any, the
\* word so far, the stream and token r, and the immediate it decoded
ArmAbortImm(a, t, k) ==
    [abort |-> a, word |-> {}, r |-> <<>>, imm |-> t, kind |-> k, disp |-> 0]

ArmAbort(a) == ArmAbortImm(a, <<>>, "none")

ArmDone(w, r, t, k, d) ==
    [abort |-> "none", word |-> w, r |-> r, imm |-> t, kind |-> k, disp |-> d]

\* the immediate m of the token r.temp is or-ed into the word w
OrImmediate(m, w, r) ==
    IF m.abort # "none" THEN ArmAbortImm(m.abort, r.temp, m.kind)
    ELSE ArmDone(w \cup m.field, r, r.temp, m.kind, m.disp)

\* the token r.temp just read is the immediate
ImmOperand(type, w, r, inp, pos, lbls) ==
    IF ~ArgOk(r) THEN ArmAbort("incorrect args")
    ELSE OrImmediate(Immediate(type, inp, r.temp, pos, lbls), w, r)

\* the register g is or-ed into the word w, then the next token is read
OrRegister(g, w, r) ==
    IF g.abort THEN [abort |-> TRUE, word |-> {}, r |-> r]
    ELSE [abort |-> FALSE, word |-> w \cup g.val, r |-> Extract(r)]

\* the token r.temp, less its last character, is a register for offset o
RegOperand(o, w, r) == OrRegister(getRegister(StripLast(r.temp), o), w, r)

\* the register s was read; the immediate follows
RegThenImm(type, s, inp, pos, lbls) ==
    IF s.abort THEN ArmAbort("invalid register")
    ELSE ImmOperand(type, s.word, s.r, inp, pos, lbls)

\* the register s was read; a second register for offset o2 and the
\* immediate follow
RegThenRegImm(type, o2, s, inp, pos, lbls) ==
    IF s.abort THEN ArmAbort("invalid register")
    ELSE IF ~ArgOk(s.r) THEN ArmAbort("incorrect args")
    ELSE RegThenImm(type, RegOperand(o2, s.word, s.r), inp, pos, lbls)

\* case 'I': rd -> 7, rs1 -> 15, immediate
ArmI(base, r3, inp, pos, lbls) ==
    RegThenRegImm("I", 15, RegOperand(7, base, r3), inp, pos, lbls)

\* the U arm with its register at offset 15, as in the J arm
ArmURegisterAt15(base, r3, inp, pos, lbls) ==
    RegThenImm("U", RegOperand(15, base, r3), inp, pos, lbls)

\* case 'U': rd -> 7, immediate
ArmU(base, r3, inp, pos, lbls) ==
    RegThenImm("U", RegOperand(7, base, r3), inp, pos, lbls)

\* the last operand of case 'R': the whole token is a register for offset 20
LastRegister(g, w, r) ==
    IF g.abort THEN ArmAbort("invalid register")
    ELSE ArmDone(w \cup g.val, r, <<>>, "none", 0)

RegThenLastReg(s) ==
    IF s.abort THEN ArmAbort("invalid register")
    ELSE IF ~ArgOk(s.r) THEN ArmAbort("incorrect args")
    ELSE LastRegister(getRegister(s.r.temp, 20), s.word, s.r)

RegThenRegReg(s) ==
    IF s.abort THEN ArmAbort("invalid register")
    ELSE IF ~ArgOk(s.r) THEN ArmAbort("incorrect args")
    ELSE RegThenLastReg(RegOperand(15, s.word, s.r))

\* case 'R': rd -> 7, rs1 -> 15, and the last token, not stripped, -> 20
ArmR(base, r3) == RegThenRegReg(RegOperand(7, base, r3))

\* case 'S': first operand -> 15, second operand -> 20, immediate
ArmS(base, r3, inp, pos, lbls) ==
    RegThenRegImm("S", 20, RegOperand(15, base, r3), inp, pos, lbls)

\* case 'J': register operand -> 15, immediate
ArmJ(base, r3, inp, pos, lbls) ==
    RegThenImm("J", RegOperand(15, base, r3), inp, pos, lbls)

\* case 'B': first operand -> 15, second operand -> 20, immediate
ArmB(base, r3, inp, pos, lbls) ==
    RegThenRegImm("B", 20, RegOperand(15, base, r3), inp, pos, lbls)

\* switch (instruction_type)
Arm(op, r3, inp, pos, lbls) ==
    CASE op.type = "I" -> ArmI(op.base, r3, inp, pos, lbls)
      [] op.type = "U" -> ArmU(op.base, r3, inp, pos, lbls)
      [] op.type = "R" -> ArmR(op.base, r3)
      [] op.type = "S" -> ArmS(op.base, r3, inp, pos, lbls)
      [] op.type = "J" -> ArmJ(op.base, r3, inp, pos, lbls)
      [] op.type = "B" -> ArmB(op.base, r3, inp, pos, lbls)

\* after the switch: one more token, which must be absent or a comment
AfterSwitch(ty, a) ==
    IF a.abort # "none" THEN PLResult(a.abort, {}, ty, a.imm, a.kind, 0)
    ELSE IF ArgOk(Extract(a.r)) THEN PLAbort("incorrect args")
    ELSE PLResult("none", a.word, ty, a.imm, a.kind, a.disp)

\* the mnemonic was looked up; r3 holds the token after it
AfterOpcode(op, r3, inp, pos, lbls) ==
    IF op.abort THEN PLAbort("unrecognized command")
    ELSE IF ~ArgOk(r3) THEN PLAbort("incorrect args")
    ELSE AfterSwitch(op.type, Arm(op, r3, inp, pos, lbls))

\* r2 holds the first token after the label, if any
AfterLabelToken(r2, inp, pos, lbls) ==
    IF r2.ss.fail THEN PLZero
    ELSE IF r2.temp[1] = "#" THEN PLZero
    ELSE AfterOpcode(getOpcode(r2.temp), Extract(r2), inp, pos, lbls)

\* r1 holds the first token of the line
AfterFirstToken(r1, inp, pos, lbls) ==
    IF Len(r1.temp) = 0 \/ r1.temp[1] = "#" THEN PLZero
    ELSE AfterLabelToken(IF Last(r1.temp) = ":" THEN Extract(r1) ELSE r1, inp, pos, lbls)

processLine(inp, pos, lbls) ==
    AfterFirstToken(Extract([ss |-> NewStream(inp), temp |-> <<>>]), inp, pos, lbls)

-----------------------------------------------------------------------------
(* process                                                                 *)

NoLabels == [n \in {} |-> 0]

\* getline(fin, input): a stream that is not good() fails and leaves input
\* alone; at the end of the file it sets eofbit and failbit and input is ""
getline(f, fl, inp) ==
    IF f.eof \/ f.fail THEN [fin |-> [f EXCEPT !.fail = TRUE], input |-> inp]
    ELSE IF f.pos > Len(fl)
         THEN [fin |-> [f EXCEPT !.eof = TRUE, !.fail = TRUE], input |-> <<>>]
         ELSE [fin |-> [f EXCEPT !.pos = f.pos + 1], input |-> fl[f.pos]]

PrologueOf(g) ==
    [fin |-> g.fin, input |-> g.input, ss_input |-> NewStream(g.input),
     temp |-> <<>>, i |-> 1, labels |-> NoLabels]

\* fstream fin(input_file); getline(fin, input); stringstream ss_input(input)
Prologue(fl) ==
    PrologueOf(getline([pos |-> 1, eof |-> FALSE, fail |-> FALSE], fl, <<>>))

\* for (int i = 1; fin && ss_input; i++)
Pass1Cond(s) == ~s.fin.fail /\ ~s.ss_input.fail

\* the index pass 1 goes on with after a label: i - 1 when nothing, or a
\* comment, follows the label on its line
AfterLabel(n, r2) ==
    IF ~(Len(r2.temp) # 0 /\ ~r2.ss.fail) \/ (Len(r2.temp) # 0 /\ r2.temp[1] = "#")
    THEN n - 1 ELSE n

\* the end of an iteration: getline(fin, input); ss_input.str(input); i++
Pass1Line(g, lbls, r, n) ==
    [fin |-> g.fin, input |-> g.input, ss_input |-> SetStr(r.ss, g.input),
     temp |-> r.temp, i |-> n + 1, labels |-> lbls]

\* the first token r1 is a label: makeLabel, and the token after it is read
Pass1Label(s, fl, r2, name) ==
    Pass1Line(getline(s.fin, fl, s.input), makeLabel(s.labels, name, s.i), r2,
              AfterLabel(s.i, r2))

Pass1Token(s, fl, r1) ==
    IF Len(r1.temp) # 0 /\ Last(r1.temp) = ":"
    THEN Pass1Label(s, fl, Extract(r1), StripLast(r1.temp))
    ELSE Pass1Line(getline(s.fin, fl, s.input), s.labels, r1, s.i)

\* one iteration of the pass-1 loop, i++ included
Pass1Body(s, fl) == Pass1Token(s, fl, Extract([ss |-> s.ss_input, temp |-> s.temp]))

RewindTo(s, g) ==
    [s EXCEPT !.fin = g.fin, !.input = g.input,
              !.ss_input = SetStr(s.ss_input, g.input), !.i = 1]

\* fin.clear(); fin.seekg(0, fin.beg); getline(fin, input); ss_input.str(input)
Rewind(s, fl) ==
    RewindTo(s, getline([pos |-> 1, eof |-> FALSE, fail |-> FALSE], fl, s.input))

Pass2Line(g, n, out) == [fin |-> g.fin, input |-> g.input, i |-> n + 1, fout |-> out]

\* the pass-2 iteration without the i -= 1 of a zero word
Pass2BodyKeepsIndex(s, fl, w) ==
    Pass2Line(getline(s.fin, fl, s.input), s.i,
              IF w = {} THEN s.fout ELSE Append(s.fout, Hex8(w)))

\* one iteration of the pass-2 loop for a line that did not abort, i++
\* included: a zero word is skipped and does not advance i
Pass2Body(s, fl, w) ==
    IF w = {}
    THEN Pass2Line(getline(s.fin, fl, s.input), s.i - 1, s.fout)
    ELSE Pass2Line(getline(s.fin, fl, s.input), s.i, Append(s.fout, Hex8(w)))

-----------------------------------------------------------------------------
(* The state machine of process().                                         *)

Pass1State ==
    [fin |-> fin, input |-> input, ss_input |-> ss_input, temp |-> temp,
     i |-> i, labels |-> labels]

SetPass1State(s) ==
    /\ fin' = s.fin
    /\ input' = s.input
    /\ ss_input' = s.ss_input
    /\ temp' = s.temp
    /\ i' = s.i
    /\ labels' = s.labels

\* both files open: fopen(output_file, "w") leaves the output file empty
Open ==
    /\ pc = "start"
    /\ SetPass1State(Prologue(file))
    /\ is_open' = {"fin", "fout"}
    /\ output_file' = <<>>
    /\ pc' = "pass1"
    /\ UNCHANGED <<arg, ret, file, fout, calls, err>>

\* the process ends at an open that failed: cerr << ...; abort()
OpenFailed(msg, held) ==
    /\ err' = msg
    /\ is_open' = held
    /\ pc' = "unopened"
    /\ UNCHANGED <<arg, ret, file, fin, input, ss_input, temp, i, labels, fout,
                   output_file, calls>>

\* !fin.is_open()
OpenInputFails ==
    /\ pc = "start"
    /\ OpenFailed("invalid input file", {})

\* fout == nullptr, with fin open
OpenOutputFails ==
    /\ pc = "start"
    /\ OpenFailed("invalid output file", {"fin"})

Pass1Iter ==
    /\ pc = "pass1"
    /\ Pass1Cond(Pass1State)
    /\ SetPass1State(Pass1Body(Pass1State, file))
    /\ UNCHANGED <<arg, ret, file, fout, output_file, is_open, calls, err, pc>>

Pass1Exit ==
    /\ pc = "pass1"
    /\ ~Pass1Cond(Pass1State)
    /\ SetPass1State(Rewind(Pass1State, file))
    /\ pc' = "pass2"
    /\ UNCHANGED <<arg, ret, file, fout, output_file, is_open, calls, err>>

Pass2State == [fin |-> fin, input |-> input, i |-> i, fout |-> fout]

SetPass2State(s) ==
    /\ fin' = s.fin
    /\ input' = s.input
    /\ i' = s.i
    /\ fout' = s.fout

\* the record pass 2 keeps of a call: the source line, pos and the result
Call(r) == [line |-> fin.pos - 1, pos |-> i, res |-> r]

\* instruction = processLine(input, i) returned r: the word is written
\* unless it is zero
Pass2Returned(r, zero) ==
    /\ r.abort = "none"
    /\ (r.word = {}) = zero
    /\ SetPass2State(Pass2Body(Pass2State, file, r.word))
    /\ calls' = Append(calls, Call(r))
    /\ UNCHANGED <<arg, ret, file, ss_input, temp, labels, output_file, is_open, err, pc>>

\* what the output file holds once abort() has ended the process: fprintf
\* wrote to the buffer of the stream, and whether abort() flushes an open
\* stream is left to the C library
AbortOutcomes(stored, written) == {stored, written}

\* processLine called abort(), or an exception of stoi ended the process:
\* no statement after the call runs, neither stream is closed
Pass2Aborted(r) ==
    /\ r.abort # "none"
    /\ calls' = Append(calls, Call(r))
    /\ err' = r.abort
    /\ output_file' \in AbortOutcomes(output_file, fout)
    /\ pc' = "aborted"
    /\ UNCHANGED <<arg, ret, file, fin, input, ss_input, temp, i, labels, fout, is_open>>

\* instruction != 0
Pass2Emit ==
    /\ pc = "pass2"
    /\ ~fin.fail
    /\ Pass2Returned(processLine(input, i, labels), FALSE)

\* instruction == 0: nothing is written, i -= 1
Pass2Skip ==
    /\ pc = "pass2"
    /\ ~fin.fail
    /\ Pass2Returned(processLine(input, i, labels), TRUE)

Pass2Abort ==
    /\ pc = "pass2"
    /\ ~fin.fail
    /\ Pass2Aborted(processLine(input, i, labels))

\* fin.close(); fclose(fout): the buffered lines reach the output file
Pass2Exit ==
    /\ pc = "pass2"
    /\ fin.fail
    /\ is_open' = {}
    /\ output_file' = fout
    /\ pc' = "done"
    /\ UNCHANGED <<arg, ret, file, fin, input, ss_input, temp, i, labels, fout, calls, err>>

Next ==
    \/ Open
    \/ OpenInputFails
    \/ OpenOutputFails
    \/ Pass1Iter
    \/ Pass1Exit
    \/ Pass2Emit
    \/ Pass2Skip
    \/ Pass2Abort
    \/ Pass2Exit

-----------------------------------------------------------------------------
(* process() as a function of the file: the same loop bodies, run to the   *)
(* end.                                                                    *)

RECURSIVE RunPass1(_, _)
RunPass1(s, fl) ==
    IF Pass1Cond(s) THEN RunPass1(Pass1Body(s, fl), fl) ELSE s

RECURSIVE RunPass2(_, _, _)
RunPass2Line(s, fl, lbls, r) ==
    IF r.abort # "none" THEN [err |-> r.abort, fout |-> s.fout]
    ELSE RunPass2(Pass2Body(s, fl, r.word), fl, lbls)

RunPass2(s, fl, lbls) ==
    IF s.fin.fail THEN [err |-> "none", fout |-> s.fout]
    ELSE RunPass2Line(s, fl, lbls, processLine(s.input, s.i, lbls))

Outcome(lbls, o) == [labels |-> lbls, err |-> o.err, fout |-> o.fout]

Pass2From(p2, fl, lbls) ==
    Outcome(lbls, RunPass2([fin |-> p2.fin, input |-> p2.input, i |-> p2.i, fout |-> <<>>],
                           fl, lbls))

Pass1Then2(p1, fl) == Pass2From(Rewind(p1, fl), fl, p1.labels)

process(fl) == Pass1Then2(RunPass1(Prologue(fl), fl), fl)

-----------------------------------------------------------------------------
(* Input files: every sequence of at most MaxLines lines of SourceLines.   *)

\* ""
LineBlank == <<>>

\* "# c"
LineComment == <<"#"," ","c">>

\* "L:"
LineLabelOnly == <<"L",":">>

\* "L: addi x0, x0, L"
LineLabelAddi == <<"L",":"," ","a","d","d","i"," ","x","0",","," ","x","0",","," ","L">>

\* "addi x0, x0, L"
LineAddi == <<"a","d","d","i"," ","x","0",","," ","x","0",","," ","L">>

\* "add x0, x0, x0"
LineAdd == <<"a","d","d"," ","x","0",","," ","x","0",","," ","x","0">>

\* "beq x0, x0, 8"
LineBeqDec == <<"b","e","q"," ","x","0",","," ","x","0",","," ","8">>

\* "8: beq x0, x0, 8"
LineDigitLabelBeq == <<"8",":"," ","b","e","q"," ","x","0",","," ","x","0",","," ","8">>

SourceLines ==
    {LineBlank, LineComment, LineLabelOnly, LineLabelAddi, LineAddi, LineAdd, LineBeqDec, LineDigitLabelBeq}

Files == UNION {[1..n -> SourceLines] : n \in 0..MaxLines}

NoStream == [buf |-> <<>>, g |-> 1, eof |-> FALSE, fail |-> FALSE]
Closed == [pos |-> 1, eof |-> FALSE, fail |-> FALSE]

\* the assembler object after construction, process() not yet entered
Constructed ==
    /\ ret = "none"
    /\ fin = Closed
    /\ input = <<>>
    /\ ss_input = NoStream
    /\ temp = <<>>
    /\ i = 1
    /\ labels = NoLabels
    /\ fout = <<>>
    /\ output_file = <<>>
    /\ is_open = {}
    /\ calls = <<>>
    /\ err = "none"

Init ==
    /\ file \in Files
    /\ arg = "process"
    /\ pc = "start"
    /\ Constructed

Spec == Init /\ [][Next]_vars

-----------------------------------------------------------------------------
(* Inputs of the single functions, and the specifications that call them.  *)

RECURSIVE ToDec(_)
ToDec(n) == IF n < 10 THEN <<Digits[n + 1]>>
            ELSE Append(ToDec(n \div 10), Digits[(n % 10) + 1])

RECURSIVE HexDigitsOf(_)
HexDigitsOf(n) == IF n < 16 THEN <<HexLower[n + 1]>>
                  ELSE Append(HexDigitsOf(n \div 16), HexLower[(n % 16) + 1])

ToHex(n) == <<"0", "x">> \o HexDigitsOf(n)

\* the register spellings and their ABI indices
RegisterNames ==
    {[name |-> <<"x">> \o ToDec(n), index |-> n] : n \in 0..31}
    \cup {[name |-> <<"t">> \o ToDec(n), index |-> IF n < 3 THEN 5 + n ELSE 25 + n] : n \in 0..6}
    \cup {[name |-> <<"s">> \o ToDec(n), index |-> IF n < 2 THEN 8 + n ELSE 16 + n] : n \in 0..11}
    \cup {[name |-> <<"a">> \o ToDec(n), index |-> 10 + n] : n \in 0..7}
    \cup {[name |-> <<"z","e","r","o">>, index |-> 0], [name |-> <<"r","a">>, index |-> 1],
          [name |-> <<"s","p">>, index |-> 2], [name |-> <<"g","p">>, index |-> 3],
          [name |-> <<"t","p">>, index |-> 4], [name |-> <<"f","p">>, index |-> 8]}

IsRegisterName(t) == \E r \in RegisterNames : r.name = t
RegisterIndex(t) == (CHOOSE r \in RegisterNames : r.name = t).index

\* digit strings of length lo..hi
DigitStrings(lo, hi) == UNION {[1..n -> {Digits[k] : k \in 1..10}] : n \in lo..hi}

Families == {"x", "t", "s", "a"}

\* register tokens: every spelling, a family letter with up to MaxTokLen
\* digits, digits in front of or around a family letter, aliases with a
\* character too many, and tokens of five characters
RegisterTokens ==
    {r.name : r \in RegisterNames}
    \cup {<<l>> \o d : l \in Families, d \in DigitStrings(0, MaxTokLen)}
    \cup {d \o <<l>> : l \in Families, d \in DigitStrings(1, 2)}
    \cup {d \o <<l>> \o e : l \in Families, d \in DigitStrings(1, 1), e \in DigitStrings(1, 1)}
    \cup {r.name \o <<c>> : r \in RegisterNames, c \in {"0", "1", "x", "a"}}
    \cup {<<c>> \o r.name : r \in RegisterNames, c \in {"0", "1", "x"}}
    \cup {<<>>, <<"q","1">>, <<"p","c">>, <<"z","e","r">>, <<"r","1","a">>}

Offsets == {0, 7, 15, 20}

InitRegister ==
    /\ arg \in [tok : RegisterTokens, offset : Offsets]
    /\ file = <<>>
    /\ pc = "call"
    /\ Constructed

GetRegisterReturns ==
    /\ pc = "call"
    /\ ~getRegister(arg.tok, arg.offset).abort
    /\ ret' = getRegister(arg.tok, arg.offset)
    /\ pc' = "ret"
    /\ UNCHANGED <<arg, file, fin, input, ss_input, temp, i, labels, fout, output_file, is_open, calls, err>>

GetRegisterAborts ==
    /\ pc = "call"
    /\ getRegister(arg.tok, arg.offset).abort
    /\ ret' = getRegister(arg.tok, arg.offset)
    /\ err' = "invalid register"
    /\ pc' = "aborted"
    /\ UNCHANGED <<arg, file, fin, input, ss_input, temp, i, labels, fout, output_file, is_open, calls>>

NextRegister == GetRegisterReturns \/ GetRegisterAborts

SpecRegister == InitRegister /\ [][NextRegister]_vars

\* the mnemonics with their fields in the RISC-V unprivileged specification
\* (RV64I and M)
ISATable ==
    << [name |-> <<"l","b">>, type |-> "I", opcode |-> 3, funct3 |-> 0, funct7 |-> 0],
         [name |-> <<"l","h">>, type |-> "I", opcode |-> 3, funct3 |-> 1, funct7 |-> 0],
         [name |-> <<"l","w">>, type |-> "I", opcode |-> 3, funct3 |-> 2, funct7 |-> 0],
         [name |-> <<"l","d">>, type |-> "I", opcode |-> 3, funct3 |-> 3, funct7 |-> 0],
         [name |-> <<"l","b","u">>, type |-> "I", opcode |-> 3, funct3 |-> 4, funct7 |-> 0],
         [name |-> <<"l","h","u">>, type |-> "I", opcode |-> 3, funct3 |-> 5, funct7 |-> 0],
         [name |-> <<"l","w","u">>, type |-> "I", opcode |-> 3, funct3 |-> 6, funct7 |-> 0],
         [name |-> <<"a","d","d","i">>, type |-> "I", opcode |-> 19, funct3 |-> 0, funct7 |-> 0],
         [name |-> <<"s","l","l","i">>, type |-> "I", opcode |-> 19, funct3 |-> 1, funct7 |-> 0],
         [name |-> <<"s","l","t","i">>, type |-> "I", opcode |-> 19, funct3 |-> 2, funct7 |-> 0],
         [name |-> <<"s","l","t","i","u">>, type |-> "I", opcode |-> 19, funct3 |-> 3, funct7 |-> 0],
         [name |-> <<"x","o","r","i">>, type |-> "I", opcode |-> 19, funct3 |-> 4, funct7 |-> 0],
         [name |-> <<"s","r","l","i">>, type |-> "I", opcode |-> 19, funct3 |-> 5, funct7 |-> 0],
         [name |-> <<"s","r","a","i">>, type |-> "I", opcode |-> 19, funct3 |-> 5, funct7 |-> 32],
         [name |-> <<"o","r","i">>, type |-> "I", opcode |-> 19, funct3 |-> 6, funct7 |-> 0],
         [name |-> <<"a","n","d","i">>, type |-> "I", opcode |-> 19, funct3 |-> 7, funct7 |-> 0],
         [name |-> <<"a","u","i","p","c">>, type |-> "U", opcode |-> 23, funct3 |-> 0, funct7 |-> 0],
         [name |-> <<"a","d","d","i","w">>, type |-> "I", opcode |-> 27, funct3 |-> 0, funct7 |-> 0],
         [name |-> <<"s","l","l","i","w">>, type |-> "I", opcode |-> 27, funct3 |-> 1, funct7 |-> 0],
         [name |-> <<"s","r","l","i","w">>, type |-> "I", opcode |-> 27, funct3 |-> 5, funct7 |-> 0],
         [name |-> <<"s","r","a","i","w">>, type |-> "I", opcode |-> 27, funct3 |-> 5, funct7 |-> 32],
         [name |-> <<"s","b">>, type |-> "S", opcode |-> 35, funct3 |-> 0, funct7 |-> 0],
         [name |-> <<"s","h">>, type |-> "S", opcode |-> 35, funct3 |-> 1, funct7 |-> 0],
         [name |-> <<"s","w">>, type |-> "S", opcode |-> 35, funct3 |-> 2, funct7 |-> 0],
         [name |-> <<"s","d">>, type |-> "S", opcode |-> 35, funct3 |-> 3, funct7 |-> 0],
         [name |-> <<"a","d","d">>, type |-> "R", opcode |-> 51, funct3 |-> 0, funct7 |-> 0],
         [name |-> <<"s","u","b">>, type |-> "R", opcode |-> 51, funct3 |-> 0, funct7 |-> 32],
         [name |-> <<"s","l","l">>, type |-> "R", opcode |-> 51, funct3 |-> 1, funct7 |-> 0],
         [name |-> <<"s","l","t">>, type |-> "R", opcode |-> 51, funct3 |-> 2, funct7 |-> 0],
         [name |-> <<"s","l","t","u">>, type |-> "R", opcode |-> 51, funct3 |-> 3, funct7 |-> 0],
         [name |-> <<"x","o","r">>, type |-> "R", opcode |-> 51, funct3 |-> 4, funct7 |-> 0],
         [name |-> <<"s","r","l">>, type |-> "R", opcode |-> 51, funct3 |-> 5, funct7 |-> 0],
         [name |-> <<"s","r","a">>, type |-> "R", opcode |-> 51, funct3 |-> 5, funct7 |-> 32],
         [name |-> <<"o","r">>, type |-> "R", opcode |-> 51, funct3 |-> 6, funct7 |-> 0],
         [name |-> <<"a","n","d">>, type |-> "R", opcode |-> 51, funct3 |-> 7, funct7 |-> 0],
         [name |-> <<"m","u","l">>, type |-> "R", opcode |-> 51, funct3 |-> 0, funct7 |-> 1],
         [name |-> <<"m","u","l","h">>, type |-> "R", opcode |-> 51, funct3 |-> 1, funct7 |-> 1],
         [name |-> <<"m","u","l","h","s","u">>, type |-> "R", opcode |-> 51, funct3 |-> 2, funct7 |-> 1],
         [name |-> <<"m","u","l","h","u">>, type |-> "R", opcode |-> 51, funct3 |-> 3, funct7 |-> 1],
         [name |-> <<"d","i","v">>, type |-> "R", opcode |-> 51, funct3 |-> 4, funct7 |-> 1],
         [name |-> <<"d","i","v","u">>, type |-> "R", opcode |-> 51, funct3 |-> 5, funct7 |-> 1],
         [name |-> <<"r","e","m">>, type |-> "R", opcode |-> 51, funct3 |-> 6, funct7 |-> 1],
         [name |-> <<"r","e","m","u">>, type |-> "R", opcode |-> 51, funct3 |-> 7, funct7 |-> 1],
         [name |-> <<"l","u","i">>, type |-> "U", opcode |-> 55, funct3 |-> 0, funct7 |-> 0],
         [name |-> <<"a","d","d","w">>, type |-> "R", opcode |-> 59, funct3 |-> 0, funct7 |-> 0],
         [name |-> <<"s","u","b","w">>, type |-> "R", opcode |-> 59, funct3 |-> 0, funct7 |-> 32],
         [name |-> <<"s","l","l","w">>, type |-> "R", opcode |-> 59, funct3 |-> 1, funct7 |-> 0],
         [name |-> <<"s","r","l","w">>, type |-> "R", opcode |-> 59, funct3 |-> 5, funct7 |-> 0],
         [name |-> <<"s","r","a","w">>, type |-> "R", opcode |-> 59, funct3 |-> 5, funct7 |-> 32],
         [name |-> <<"m","u","l","w">>, type |-> "R", opcode |-> 59, funct3 |-> 0, funct7 |-> 1],
         [name |-> <<"d","i","v","w">>, type |-> "R", opcode |-> 59, funct3 |-> 4, funct7 |-> 1],
         [name |-> <<"d","i","v","u","w">>, type |-> "R", opcode |-> 59, funct3 |-> 5, funct7 |-> 1],
         [name |-> <<"r","e","m","w">>, type |-> "R", opcode |-> 59, funct3 |-> 6, funct7 |-> 1],
         [name |-> <<"r","e","m","u","w">>, type |-> "R", opcode |-> 59, funct3 |-> 7, funct7 |-> 1],
         [name |-> <<"b","e","q">>, type |-> "B", opcode |-> 99, funct3 |-> 0, funct7 |-> 0],
         [name |-> <<"b","n","e">>, type |-> "B", opcode |-> 99, funct3 |-> 1, funct7 |-> 0],
         [name |-> <<"b","l","t">>, type |-> "B", opcode |-> 99, funct3 |-> 4, funct7 |-> 0],
         [name |-> <<"b","g","e">>, type |-> "B", opcode |-> 99, funct3 |-> 5, funct7 |-> 0],
         [name |-> <<"b","l","t","u">>, type |-> "B", opcode |-> 99, funct3 |-> 6, funct7 |-> 0],
         [name |-> <<"b","g","e","u">>, type |-> "B", opcode |-> 99, funct3 |-> 7, funct7 |-> 0],
         [name |-> <<"j","a","l","r">>, type |-> "I", opcode |-> 103, funct3 |-> 0, funct7 |-> 0],
         [name |-> <<"j","a","l">>, type |-> "J", opcode |-> 111, funct3 |-> 0, funct7 |-> 0] >>

ISABase(e) ==
    Bits(e.opcode) \cup Shl(Bits(e.funct3), 12, 32) \cup Shl(Bits(e.funct7), 25, 32)

Mnemonics == {ISATable[k].name : k \in 1..Len(ISATable)}

ISAEntry(t) == ISATable[CHOOSE k \in 1..Len(ISATable) : ISATable[k].name = t]

\* mnemonic tokens: every mnemonic, every mnemonic cut short by a character
\* and every mnemonic with a character too many
MnemonicTokens ==
    Mnemonics
    \cup {StripLast(m) : m \in Mnemonics}
    \cup {m \o <<c>> : m \in Mnemonics, c \in {"u", ":"}}

InitOpcode ==
    /\ arg \in MnemonicTokens
    /\ file = <<>>
    /\ pc = "call"
    /\ Constructed

GetOpcodeReturns ==
    /\ pc = "call"
    /\ ~getOpcode(arg).abort
    /\ ret' = getOpcode(arg)
    /\ pc' = "ret"
    /\ UNCHANGED <<arg, file, fin, input, ss_input, temp, i, labels, fout, output_file, is_open, calls, err>>

GetOpcodeAborts ==
    /\ pc = "call"
    /\ getOpcode(arg).abort
    /\ ret' = getOpcode(arg)
    /\ err' = "unrecognized command"
    /\ pc' = "aborted"
    /\ UNCHANGED <<arg, file, fin, input, ss_input, temp, i, labels, fout, output_file, is_open, calls>>

NextOpcode == GetOpcodeReturns \/ GetOpcodeAborts

SpecOpcode == InitOpcode /\ [][NextOpcode]_vars

\* one instruction line: the mnemonic, then the operands, each but the last
\* followed by a comma, separated by single spaces
RECURSIVE Operands(_)
Operands(ops) ==
    IF Len(ops) = 0 THEN <<>>
    ELSE IF Len(ops) = 1 THEN <<" ">> \o ops[1]
    ELSE <<" ">> \o ops[1] \o <<",">> \o Operands(Tail(ops))

InstructionLine(m, ops) == m \o Operands(ops)

EncRegisters ==
    {<<"x","0">>, <<"x","1">>, <<"x","2">>, <<"x","3">>, <<"x","5">>, <<"x","3","1">>,
     <<"t","6">>, <<"s","1","1">>, <<"z","e","r","o">>, <<"x","3","2">>}

EncR == {<<"a","d","d">>, <<"s","u","b">>, <<"m","u","l","h","u">>, <<"r","e","m","u","w">>}
EncI == {<<"a","d","d","i">>, <<"l","d">>, <<"s","r","a","i">>, <<"j","a","l","r">>}
EncU == {<<"l","u","i">>, <<"a","u","i","p","c">>}
EncS == {<<"s","w">>, <<"s","d">>}

\* literal immediates of 12 and of 20 bits
Imm12 == {0, 5, 8, 31, 32, 2047, 2048, 4095}
Imm20 == {0, 1, 74565, 524288, 1048575}

EncArg(ty, m, regs, imm, hex) ==
    [type |-> ty, m |-> m, regs |-> regs, imm |-> imm, hex |-> hex]

\* an instruction to encode: mnemonic, register operands, and for the
\* formats with an immediate its value and spelling
EncArgs ==
    {EncArg("R", m, r, -1, FALSE) : m \in EncR, r \in [1..3 -> EncRegisters]}
    \cup {EncArg("I", m, r, v, h) :
            m \in EncI, r \in [1..2 -> EncRegisters], v \in Imm12, h \in BOOLEAN}
    \cup {EncArg("S", m, r, v, h) :
            m \in EncS, r \in [1..2 -> EncRegisters], v \in Imm12, h \in BOOLEAN}
    \cup {EncArg("U", m, r, v, h) :
            m \in EncU, r \in [1..1 -> EncRegisters], v \in Imm20, h \in BOOLEAN}

EncLine(a) ==
    InstructionLine(a.m,
        IF a.imm = -1 THEN a.regs
        ELSE Append(a.regs, IF a.hex THEN ToHex(a.imm) ELSE ToDec(a.imm)))

InitEnc ==
    /\ arg \in EncArgs
    /\ file = <<EncLine(arg)>>
    /\ pc = "call"
    /\ Constructed

ProcessLineReturns ==
    /\ pc = "call"
    /\ processLine(file[1], 1, labels).abort = "none"
    /\ ret' = processLine(file[1], 1, labels)
    /\ pc' = "ret"
    /\ UNCHANGED <<arg, file, fin, input, ss_input, temp, i, labels, fout, output_file, is_open, calls, err>>

ProcessLineAborts ==
    /\ pc = "call"
    /\ processLine(file[1], 1, labels).abort # "none"
    /\ ret' = processLine(file[1], 1, labels)
    /\ err' = processLine(file[1], 1, labels).abort
    /\ pc' = "aborted"
    /\ UNCHANGED <<arg, file, fin, input, ss_input, temp, i, labels, fout, output_file, is_open, calls>>

NextEnc == ProcessLineReturns \/ ProcessLineAborts

SpecEnc == InitEnc /\ [][NextEnc]_vars

-----------------------------------------------------------------------------
(* The reading of a source file that the properties refer to: the words of *)
(* a line, its label, and whether it is an emitting line.                  *)

RECURSIVE WordsFrom(_, _)
WordsFrom(line, g) ==
    IF SkipWs(line, g) > Len(line) THEN <<>>
    ELSE <<SubSeq(line, SkipWs(line, g), TokenEnd(line, SkipWs(line, g)) - 1)>>
         \o WordsFrom(line, TokenEnd(line, SkipWs(line, g)))

Words(line) == WordsFrom(line, 1)

HasLabel(line) == Words(line) # <<>> /\ Last(Words(line)[1]) = ":"

LabelName(line) == StripLast(Words(line)[1])

WordsAfterLabel(line) == IF HasLabel(line) THEN Tail(Words(line)) ELSE Words(line)

\* after the label, if any, a token follows that does not begin a comment
IsEmitting(line) == WordsAfterLabel(line) # <<>> /\ WordsAfterLabel(line)[1][1] # "#"

\* the number of emitting lines among the first n lines
EmittingUpTo(fl, n) == Cardinality({m \in 1..n : IsEmitting(fl[m])})

DeclaredLabels(fl) == {LabelName(fl[n]) : n \in {m \in 1..Len(fl) : HasLabel(fl[m])}}

Finished == pc \in {"done", "aborted"}

-----------------------------------------------------------------------------
(* Properties.                                                             *)

\* C1: when a file assembles without error, the displacement computed for a
\* line whose immediate is a declared label L is iL - i, where i is the
\* ordinal of the line among the emitting lines and iL is one more than the
\* number of emitting lines before a declaration of L.
IndexUnitConsistency ==
    pc = "done" =>
        \A k \in 1..Len(calls) :
            calls[k].res.kind = "label" =>
                \E n \in 1..Len(file) :
                    /\ HasLabel(file[n])
                    /\ LabelName(file[n]) = calls[k].res.imm
                    /\ calls[k].res.disp =
                         (EmittingUpTo(file, n - 1) + 1) - EmittingUpTo(file, calls[k].line)

\* C2: once pass 1 has finished, the keys of labels are exactly the names
\* that lead some line of the file as "name:".
Pass1Totality ==
    pc \in {"pass2", "done", "aborted"} => DOMAIN labels = DeclaredLabels(file)

BlankLines == {<<>>, <<" ">>}

InsertLine(fl, k, line) == SubSeq(fl, 1, k - 1) \o <<line>> \o SubSeq(fl, k, Len(fl))

\* C3: a file with a blank line inserted anywhere assembles to the same
\* label bindings, the same error or success, and the same hex words.
BlankLineNeutrality ==
    Finished =>
        \A k \in 1..(Len(file) + 1), b \in BlankLines :
            process(InsertLine(file, k, b)) = [labels |-> labels, err |-> err, fout |-> fout]

Comment == <<" ", "#", " ", "c">>

WithComment(fl, n) == [fl EXCEPT ![n] = fl[n] \o Comment]

\* C4: a file with a comment appended to any one line assembles to the same
\* error or success and the same hex words.
CommentNeutrality ==
    Finished =>
        \A n \in 1..Len(file) :
            /\ process(WithComment(file, n)).err = err
            /\ process(WithComment(file, n)).fout = fout

UpperHexDigits == {HexUpper[k] : k \in 1..16}

\* the bits of the word that a line of eight hex digits spells
HexBits(h) == {x \in 0..31 : (HexVal(h[8 - (x \div 4)]) \div (2^(x % 4))) % 2 = 1}

IsHexLine(h) == Len(h) = 8 /\ \A j \in 1..8 : h[j] \in UpperHexDigits

\* C5: when a file assembles without error, processLine was called once per
\* line; the call for the k-th emitting line had pos = k and returned a
\* word that is not zero, and line k of the output is that word in eight
\* uppercase hex digits; a non-emitting line returned zero, wrote nothing
\* and left the index alone.
OneWordPerEmittingLine ==
    pc = "done" =>
        /\ Len(calls) = Len(file)
        /\ Len(fout) = EmittingUpTo(file, Len(file))
        /\ \A n \in 1..Len(calls) :
            /\ calls[n].line = n
            /\ calls[n].pos = EmittingUpTo(file, n - 1) + 1
            /\ calls[n].res.word = processLine(file[n], calls[n].pos, labels).word
            /\ IF IsEmitting(file[n])
               THEN /\ calls[n].res.word # {}
                    /\ IsHexLine(fout[calls[n].pos])
                    /\ HexBits(fout[calls[n].pos]) = calls[n].res.word
               ELSE calls[n].res.word = {}

\* C5 witness: a file of three lines, the second one non-emitting between
\* two emitting lines, has assembled to two words.
OneWordPerEmittingLineWitness ==
    /\ pc = "done"
    /\ Len(file) = 3
    /\ IsEmitting(file[1]) /\ ~IsEmitting(file[2]) /\ IsEmitting(file[3])
    /\ Len(fout) = 2

\* the class of an immediate token by its own characters
TokenKind(t) ==
    IF Len(t) >= 2 /\ t[1] = "0" /\ t[2] = "x" THEN "hex"
    ELSE IF IsDigit(t[1]) THEN "dec" ELSE "label"

\* C8: in every format the immediate token alone decides how it is read:
\* 0x.. as hex, a leading digit as decimal, anything else as a label.
ImmediateClassification ==
    \A k \in 1..Len(calls) :
        calls[k].res.imm # <<>> => calls[k].res.kind = TokenKind(calls[k].res.imm)


Exited == pc \in {"done", "aborted", "unopened"}

\* C11: on every exit path of process(), the normal end, an abort inside
\* processLine and a failed open alike, no stream is left open and the
\* output file holds every word that was written before the exit.
ReleasedOnEveryExit ==
    Exited => is_open = {} /\ output_file = fout
\* the bits of n placed at bit offset o
Field(n, o) == {b + o : b \in Bits(n)}

Returned == pc \in {"ret", "aborted"}

ValidRegisters(a) == \A k \in 1..Len(a.regs) : IsRegisterName(a.regs[k])

R(a, k) == RegisterIndex(a.regs[k])

ExpectedRIU(a) ==
    getOpcode(a.m).base \cup Field(R(a, 1), 7) \cup
    (CASE a.type = "R" -> Field(R(a, 2), 15) \cup Field(R(a, 3), 20)
       [] a.type = "I" -> Field(R(a, 2), 15) \cup Field(a.imm, 20)
       [] a.type = "U" -> Field(a.imm, 12))

AddiX1X0_5 == EncArg("I", <<"a","d","d","i">>, <<<<"x","1">>, <<"x","0">>>>, 5, FALSE)
AddX3X1X2 == EncArg("R", <<"a","d","d">>, <<<<"x","3">>, <<"x","1">>, <<"x","2">>>>, -1, FALSE)
LuiX5_0x12345 == EncArg("U", <<"l","u","i">>, <<<<"x","5">>>>, 74565, TRUE)
SwX2X1_8 == EncArg("S", <<"s","w">>, <<<<"x","2">>, <<"x","1">>>>, 8, FALSE)

\* C6: an R, I or U line with valid registers and a literal immediate in
\* the range of its field encodes to base | rd<<7 | rs1<<15 | rs2<<20 (R),
\* base | rd<<7 | rs1<<15 | imm<<20 (I), base | rd<<7 | imm<<12 (U); so
\* addi x1, x0, 5 is 00500093, add x3, x1, x2 is 002081B3 and
\* lui x5, 0x12345 is 123452B7.
EncodesRIU ==
    (Returned /\ arg.type \in {"R", "I", "U"} /\ ValidRegisters(arg)) =>
        /\ pc = "ret"
        /\ ret.abort = "none"
        /\ ret.word = ExpectedRIU(arg)
        /\ arg = AddiX1X0_5 => Hex8(ret.word) = <<"0","0","5","0","0","0","9","3">>
        /\ arg = AddX3X1X2 => Hex8(ret.word) = <<"0","0","2","0","8","1","B","3">>
        /\ arg = LuiX5_0x12345 => Hex8(ret.word) = <<"1","2","3","4","5","2","B","7">>

\* C6 witness: lui x5, 0x12345 has been encoded to 123452B7.
EncodesRIUWitness ==
    /\ pc = "ret"
    /\ arg = LuiX5_0x12345
    /\ file[1] = <<"l","u","i"," ","x","5",","," ","0","x","1","2","3","4","5">>
    /\ Hex8(ret.word) = <<"1","2","3","4","5","2","B","7">>

\* C7: an S line "op A, B, imm" with 0 <= imm < 2^12 encodes A as rs2 in
\* bits 24:20, B as rs1 in bits 19:15, imm[4:0] in bits 11:7 and imm[11:5]
\* in bits 31:25; so sw x2, x1, 8 is 0020A423.
EncodesS ==
    (Returned /\ arg.type = "S" /\ ValidRegisters(arg)) =>
        /\ pc = "ret"
        /\ ret.abort = "none"
        /\ ret.word = getOpcode(arg.m).base
                        \cup Field(R(arg, 1), 20) \cup Field(R(arg, 2), 15)
                        \cup {b + 7 : b \in Bits(arg.imm) \cap (0..4)}
                        \cup {b + 20 : b \in Bits(arg.imm) \cap (5..11)}
        /\ arg = SwX2X1_8 => Hex8(ret.word) = <<"0","0","2","0","A","4","2","3">>

\* C9: for each of the 62 mnemonics getOpcode returns the format of the
\* mnemonic and the base word opcode | funct3<<12 | funct7<<25 of the
\* RISC-V specification; any other token aborts.
OpcodeTableMatchesISA ==
    Returned =>
        IF arg \in Mnemonics
        THEN /\ pc = "ret"
             /\ ret.abort = FALSE
             /\ ret.type = ISAEntry(arg).type
             /\ ret.base = ISABase(ISAEntry(arg))
        ELSE pc = "aborted" /\ ret.abort

\* C10: getRegister returns the ABI index shifted left by the offset for
\* the recognized spellings and fails for every other token.
RegisterDecoderAgrees ==
    Returned =>
        IF IsRegisterName(arg.tok)
        THEN /\ pc = "ret"
             /\ ret.abort = FALSE
             /\ ret.val = Field(RegisterIndex(arg.tok), arg.offset)
        ELSE pc = "aborted" /\ ret.abort


-----------------------------------------------------------------------------
(* processLine on B and J lines whose last operand is a label: the line is *)
(* at index pos and the label is bound so that labels[L] - pos = d.        *)

LabelL == <<"L">>

DispRegisters == {<<"x","0">>, <<"x","1">>, <<"x","3","1">>, <<"x","3","2">>}

DispB == {<<"b","e","q">>, <<"b","n","e">>, <<"b","g","e","u">>}
DispJ == {<<"j","a","l">>}

\* displacements of a B line: the ends of the 13-bit range, odd and even
\* values, both signs
DisplacementsB ==
    {-4096, -4095, -2048, -33, -2, -1, 0, 1, 2, 3, 4, 31, 32, 2047, 2048, 4094, 4095}

\* displacements of a J line: those of a B line and the ends of the 21-bit
\* range
DisplacementsJ ==
    DisplacementsB
    \cup {-1048576, -1048575, -32768, -4097, 4096, 32768, 65536, 1048574, 1048575}

DispArg(ty, m, regs, d) == [type |-> ty, m |-> m, regs |-> regs, d |-> d]

DispArgs ==
    {DispArg("B", m, r, d) : m \in DispB, r \in [1..2 -> DispRegisters], d \in DisplacementsB}
    \cup {DispArg("J", m, r, d) : m \in DispJ, r \in [1..1 -> DispRegisters], d \in DisplacementsJ}

DispLine(a) == InstructionLine(a.m, Append(a.regs, LabelL))

\* the index of the line and the binding of L that give the displacement d:
\* a forward reference from line 1, or a backward reference to line 1
DispPos(d) == IF d >= 0 THEN 1 ELSE 1 - d
DispTarget(d) == IF d >= 0 THEN 1 + d ELSE 1

DispLabels(d) == makeLabel(NoLabels, LabelL, DispTarget(d))

InitDisp ==
    /\ arg \in DispArgs
    /\ file = <<DispLine(arg)>>
    /\ labels = DispLabels(arg.d)
    /\ i = DispPos(arg.d)
    /\ pc = "call"
    /\ ret = "none"
    /\ fin = Closed
    /\ input = <<>>
    /\ ss_input = NoStream
    /\ temp = <<>>
    /\ fout = <<>>
    /\ output_file = <<>>
    /\ is_open = {}
    /\ calls = <<>>
    /\ err = "none"

DispReturns ==
    /\ pc = "call"
    /\ processLine(file[1], i, labels).abort = "none"
    /\ ret' = processLine(file[1], i, labels)
    /\ pc' = "ret"
    /\ UNCHANGED <<arg, file, fin, input, ss_input, temp, i, labels, fout, output_file, is_open, calls, err>>

DispAborts ==
    /\ pc = "call"
    /\ processLine(file[1], i, labels).abort # "none"
    /\ ret' = processLine(file[1], i, labels)
    /\ err' = processLine(file[1], i, labels).abort
    /\ pc' = "aborted"
    /\ UNCHANGED <<arg, file, fin, input, ss_input, temp, i, labels, fout, output_file, is_open, calls>>

NextDisp == DispReturns \/ DispAborts

SpecDisp == InitDisp /\ [][NextDisp]_vars

-----------------------------------------------------------------------------
(* The immediate of a B or J word, reassembled as the ISA lays it out.     *)

\* bits lo..hi of the word w, moved so that bit lo becomes bit to
ImmBits(w, lo, hi, to) == {(b - lo) + to : b \in w \cap (lo..hi)}

\* imm[12] = bit 31, imm[10:5] = bits 30:25, imm[4:1] = bits 11:8,
\* imm[11] = bit 7, imm[0] = 0
ReassembleB(w) ==
    ImmBits(w, 31, 31, 12) \cup ImmBits(w, 25, 30, 5)
    \cup ImmBits(w, 8, 11, 1) \cup ImmBits(w, 7, 7, 11)

\* imm[20] = bit 31, imm[10:1] = bits 30:21, imm[11] = bit 20,
\* imm[19:12] = bits 19:12, imm[0] = 0
ReassembleJ(w) ==
    ImmBits(w, 31, 31, 20) \cup ImmBits(w, 21, 30, 1)
    \cup ImmBits(w, 20, 20, 11) \cup ImmBits(w, 12, 19, 12)

\* the two's-complement value of the bits s, bit top being the sign
SignedValue(s, top) == SumPow(s \ {top}, 0) - (IF top \in s THEN 2^top ELSE 0)

Reassembled(ty, w) ==
    IF ty = "B" THEN SignedValue(ReassembleB(w), 12) ELSE SignedValue(ReassembleJ(w), 20)

DisplacementsOf(ty) == IF ty = "B" THEN DisplacementsB ELSE DisplacementsJ

\* the word of the same line when the displacement is d
WordAt(a, d) == processLine(DispLine(a), DispPos(d), DispLabels(d)).word

\* C12: the immediate reassembled from the word of a B or J line with a
\* label operand is the displacement labels[L] - pos, whatever the
\* registers of the line; and no other displacement gives the same
\* reassembled immediate.
DisplacementRoundTrip ==
    pc = "ret" =>
        /\ Reassembled(arg.type, ret.word) = arg.d
        /\ \A d \in DisplacementsOf(arg.type) \ {arg.d} :
               Reassembled(arg.type, WordAt(arg, d)) # Reassembled(arg.type, ret.word)
====
